---- MODULE Spec2Model ----
(***************************************************************************)
(* Model of the git backend of readthedocs' vcs_support                    *)
(* (readthedocs/vcs_support/backends/git.py, class Backend).               *)
(*                                                                         *)
(* The backend drives an external git executable through self.run.  Each   *)
(* self.run is one step of the model; the exit code of a command that      *)
(* talks to the remote or rewrites the working directory is chosen by the  *)
(* environment, while the two read-only inspections used for decisions     *)
(* (git config --get remote.origin.url, git status) answer from the state  *)
(* of the working directory.  The remote repository is not part of the     *)
(* state: it moves on its own, so a fetch or a clone may find any refs.    *)
(*                                                                         *)
(* Strings that the code only compares or concatenates (branch names,      *)
(* revisions) are TLA+ strings; the repository URL and the stdout of the   *)
(* config lookup, which the code strips, are sequences of characters.      *)
(***************************************************************************)
EXTENDS Integers, Sequences, FiniteSets, TLC

\* ---------------------------------------------------------------- bounds
MaxCode == 1          \* exit codes are 0..MaxCode
MaxCommit == 2        \* commits are 1..MaxCommit, 0 is "no commit"
MaxLines == 3         \* a listing has at most MaxLines lines

ExitCodes == 0..MaxCode
NoCommit == 0

\* ------------------------------------------------------- program constants
fallback_branch == "master"

None == "None"                       \* Python's None
Branches == {"master", "dev"}        \* branch names the remote may carry
DefaultBranches == {None, "", "dev"} \* values of self.default_branch
Identifiers == {None, "", "2.0.2"}   \* values of checkout's argument
\* repository URLs, as sequences of characters; a URL carries no leading or
\* trailing whitespace
UrlA == <<"a">>
UrlB == <<"b">>
Urls == {UrlA, UrlB}                 \* values of self.repo_url
NoUrl == <<>>                        \* no remote.origin.url in .git/config
Whitespace == {" ", "\n", "\t"}

\* ------------------------------------------------------------------ state
VARIABLES
    working_dir,     \* the local directory (see AbsentDir)
    pc,              \* position of the call in progress, "idle" between calls
    op,              \* "update" or "checkout": the call in progress / last made
    repo_url,        \* self.repo_url of that call
    default_branch,  \* self.default_branch of that call
    identifier,      \* the argument of checkout
    trace,           \* what the call has done so far, in order
    outcome,         \* "running", "returned" or "raised"
    ret,             \* the triple the call returned
    update_ret,      \* the triple update returned (inside checkout too)
    warnings,        \* exit codes passed to log.warning during the call
    prev,            \* where the call before this one left the directory,
                     \* kept when both are updates of one URL and branch
                     \* and that one returned; NoPrev otherwise
    listing,         \* what git answered to the tags or branches property:
                     \* which property, the exit code, the lines of stdout
    listed           \* what the property gave its caller

vars == <<working_dir, pc, op, repo_url, default_branch, identifier,
          trace, outcome, ret, update_ret, warnings, prev, listing, listed>>

NoRefs == [b \in Branches |-> NoCommit]
\* the refs a repository may hold: branch -> its tip, or 0 when it has none
RefStates == [Branches -> 0..MaxCommit]

\* exists: os.path.exists(working_dir); origin_url: remote.origin.url of its
\* .git/config; is_repo: git status succeeds in it; refs: its remote-tracking
\* refs origin/<branch>; head: the commit its HEAD is at.
AbsentDir == [exists |-> FALSE, origin_url |-> NoUrl, is_repo |-> FALSE,
              refs |-> NoRefs, head |-> NoCommit]

NoTriple == <<>>

\* no property has been read
NoListing == [kind |-> "none", retcode |-> 0, lines |-> <<>>]
NotListed == [state |-> "pending", versions |-> <<>>]
NoPrev == [valid |-> FALSE, code |-> 0, head |-> NoCommit, refs |-> NoRefs]

\* ---------------------------------------------------------- pure helpers
RECURSIVE LStrip(_)
LStrip(s) == IF s # <<>> /\ Head(s) \in Whitespace THEN LStrip(Tail(s)) ELSE s

RECURSIVE RStrip(_)
RStrip(s) == IF s # <<>> /\ s[Len(s)] \in Whitespace
             THEN RStrip(SubSeq(s, 1, Len(s) - 1)) ELSE s

\* str.strip()
Strip(s) == RStrip(LStrip(s))

\* Python truthiness of an optional string: None and '' are false
Truthy(s) == s # None /\ s # ""

\* x or y
Or(x, y) == IF Truthy(x) THEN x ELSE y

Event(cmd, arg, code) == [cmd |-> cmd, arg |-> arg, code |-> code]

\* stdout and stderr of a git reset: which revision it was about
Triple(code, revision) ==
    <<code, IF code = 0 THEN revision ELSE "", IF code = 0 THEN "" ELSE revision>>

\* ------------------------------------------------- the external commands
\* git config -f <working_dir>/.git/config --get remote.origin.url
ConfigLookup(wd) ==
    IF wd.exists /\ wd.origin_url # NoUrl
    THEN [code |-> 0, out |-> wd.origin_url \o <<"\n">>]
    ELSE [code |-> 1, out |-> <<>>]

\* git status: zero exactly in a valid repository
StatusCode(wd) == IF wd.exists /\ wd.is_repo THEN 0 ELSE 1

\* commits a revision string can resolve to in the local repository
LocalCommits(wd) ==
    ({wd.refs[b] : b \in Branches} \cup {wd.head}) \ {NoCommit}

\* ---------------------------------------------------------------- Init
\* a backend on which no call has been made
BackendIdle ==
    /\ working_dir = AbsentDir
    /\ pc = "idle"
    /\ op = "update"
    /\ repo_url = UrlA
    /\ default_branch = None
    /\ identifier = None
    /\ trace = <<>>
    /\ outcome = "returned"
    /\ ret = NoTriple
    /\ update_ret = NoTriple
    /\ warnings = <<>>
    /\ prev = NoPrev

Init ==
    /\ BackendIdle
    /\ listing = NoListing
    /\ listed = NotListed

\* ------------------------------------------------------------ the calls
\* BaseVCS.update (super(Backend, self).update()): runs the consistency
\* check first.
BaseUpdateEntry == "check_working_dir"

\* BaseVCS.check_working_dir, called at the end of Backend.check_working_dir:
\* leaves a directory that does not exist alone.
BaseCheckWorkingDir(wd) == wd

\* Where the call that just ended left the directory, for a call (o, url,
\* db) that follows it.
Summary(o, url, db) ==
    IF /\ op = "update" /\ outcome = "returned" /\ ret # NoTriple
       /\ o = "update" /\ url = repo_url
       /\ Or(db, fallback_branch) = Or(default_branch, fallback_branch)
    THEN [valid |-> TRUE, code |-> ret[1], head |-> working_dir.head,
          refs |-> working_dir.refs]
    ELSE NoPrev

Enter(o, url, db, id) ==
    /\ pc = "idle"
    /\ op' = o
    /\ repo_url' = url
    /\ default_branch' = db
    /\ identifier' = id
    /\ trace' = <<>>
    /\ outcome' = "running"
    /\ ret' = NoTriple
    /\ update_ret' = NoTriple
    /\ warnings' = <<>>
    /\ prev' = Summary(o, url, db)
    /\ pc' = BaseUpdateEntry
    /\ UNCHANGED <<working_dir, listing, listed>>

\* Backend.update is called on a backend with this URL and default branch.
Update == \E url \in Urls, db \in DefaultBranches : Enter("update", url, db, None)

\* Backend.checkout(identifier): super().checkout(), which touches nothing
\* of this state, then self.update().
Checkout ==
    \E url \in Urls, db \in DefaultBranches, id \in Identifiers :
        Enter("checkout", url, db, id)

\* variants of repo_url_changed: one that never reports a change, one that
\* compares the raw stdout, one that always reports a change
repo_url_never_changed(out) == FALSE
repo_url_changed_unstripped(out) == out # repo_url
repo_url_always_changed(out) == TRUE

\* variant of repo_url_changed: an empty answer of the lookup is taken as
\* no change
repo_url_changed_if_readable(out) == out # <<>> /\ Strip(out) # repo_url

\* variant of repo_url_changed: the comparison inverted
repo_url_changed_inverted(out) == Strip(out) = repo_url

\* Backend.repo_url_changed, on the stdout of the config lookup
repo_url_changed(out) == Strip(out) # repo_url

\* variant of Rmtree: the files of the checkout are removed, the
\* repository under .git is left
RmtreeKeepsRepository(wd) == [wd EXCEPT !.head = NoCommit]

\* rmtree(self.working_dir): nothing of the directory is left
Rmtree(wd) == AbsentDir

\* Backend.check_working_dir
CheckWorkingDir ==
    /\ pc = "check_working_dir"
    /\ LET lookup == ConfigLookup(working_dir)
           changed == repo_url_changed(lookup.out)
       IN  IF working_dir.exists
           THEN /\ trace' = trace \o <<Event("check_working_dir", "", 0),
                                       Event("config", "", lookup.code)>>
                              \o (IF changed THEN <<Event("rmtree", "", 0)>>
                                  ELSE <<>>)
                /\ working_dir' = BaseCheckWorkingDir(
                                      IF changed THEN Rmtree(working_dir)
                                      ELSE working_dir)
           ELSE /\ trace' = Append(trace, Event("check_working_dir", "", 0))
                /\ working_dir' = BaseCheckWorkingDir(working_dir)
    /\ pc' = "repo_exists"
    /\ UNCHANGED <<listing, listed, op, repo_url, default_branch, identifier, outcome,
                   ret, update_ret, warnings, prev>>

\* variant of AfterProbe: the two branches swapped
AfterProbeSwapped(code) == IF code = 0 THEN "clone" ELSE "pull"

\* update's choice between pull and clone, on the exit code of git status
AfterProbe(code) == IF code = 0 THEN "pull" ELSE "clone"

\* Backend.repo_exists and the branch of update on its result
RepoExists ==
    /\ pc = "repo_exists"
    /\ LET code == StatusCode(working_dir)
       IN  /\ trace' = Append(trace, Event("status", "", code))
           /\ pc' = AfterProbe(code)
    /\ UNCHANGED <<listing, listed, working_dir, op, repo_url, default_branch,
                   identifier, outcome, ret, update_ret, warnings, prev>>

\* variant of ImportFails: the exit code is not checked
ImportNeverFails(code) == FALSE

\* pull and clone raise ProjectImportError on this condition
ImportFails(code) == code # 0

\* raise ProjectImportError: the call in progress ends, nothing is returned
Raise ==
    /\ pc' = "idle"
    /\ outcome' = "raised"
    /\ UNCHANGED <<listing, listed, ret, update_ret>>

\* Backend.pull: git fetch --prune
Pull ==
    /\ pc = "pull"
    /\ \E code \in ExitCodes :
        /\ trace' = Append(trace, Event("fetch", "", code))
        /\ \E refs \in IF code = 0 THEN RefStates
                       ELSE {working_dir.refs} :
               working_dir' = [working_dir EXCEPT !.refs = refs]
        /\ IF ImportFails(code)
           THEN Raise
           ELSE /\ pc' = "submodule_sync"
                /\ UNCHANGED <<outcome, ret, update_ret>>
    /\ UNCHANGED <<listing, listed, op, repo_url, default_branch, identifier,
                   warnings, prev>>

\* what a clone that failed half way may leave behind
PartialClones ==
    {[exists |-> TRUE, origin_url |-> u, is_repo |-> r, refs |-> NoRefs,
      head |-> NoCommit] : u \in {NoUrl, repo_url}, r \in BOOLEAN}

\* the commit the clone checks out: the tip of the remote's HEAD branch
CloneHeads(refs) ==
    IF refs = NoRefs THEN {NoCommit}
    ELSE {refs[b] : b \in Branches} \ {NoCommit}

\* Backend.clone: git clone --recursive --quiet <repo_url> .
\* git refuses to clone into a directory that is not empty.
Clone ==
    /\ pc = "clone"
    /\ \E code \in ExitCodes :
        /\ code = 0 => ~working_dir.exists
        /\ trace' = Append(trace, Event("clone", "", code))
        /\ IF code = 0
           THEN \E refs \in RefStates : \E h \in CloneHeads(refs) :
                   working_dir' = [exists |-> TRUE, origin_url |-> repo_url,
                                   is_repo |-> TRUE, refs |-> refs,
                                   head |-> h]
           ELSE \E wd \in {working_dir} \cup
                          (IF working_dir.exists THEN {} ELSE PartialClones) :
                   working_dir' = wd
        /\ IF ImportFails(code)
           THEN Raise
           ELSE /\ pc' = "submodule_sync"
                /\ UNCHANGED <<outcome, ret, update_ret>>
    /\ UNCHANGED <<listing, listed, op, repo_url, default_branch, identifier,
                   warnings, prev>>

\* update, line by line after the fetch or clone: the exit code of a
\* submodule command is not looked at
\* variant of AfterSubmoduleSync: a failed sync skips the submodule update
AfterSubmoduleSyncChecked(code) == IF code = 0 THEN "submodule_update" ELSE "reset"

AfterSubmoduleSync(code) == "submodule_update"
AfterSubmoduleUpdate(code) == "reset"

\* self.run('git', 'submodule', 'sync')
SubmoduleSync ==
    /\ pc = "submodule_sync"
    /\ \E code \in ExitCodes :
        /\ trace' = Append(trace, Event("submodule_sync", "", code))
        /\ pc' = AfterSubmoduleSync(code)
    /\ UNCHANGED <<listing, listed, working_dir, op, repo_url, default_branch,
                   identifier, outcome, ret, update_ret, warnings, prev>>

\* self.run('git', 'submodule', 'update', '--init', '--recursive')
SubmoduleUpdate ==
    /\ pc = "submodule_update"
    /\ \E code \in ExitCodes :
        /\ trace' = Append(trace, Event("submodule_update", "", code))
        /\ pc' = AfterSubmoduleUpdate(code)
    /\ UNCHANGED <<listing, listed, working_dir, op, repo_url, default_branch,
                   identifier, outcome, ret, update_ret, warnings, prev>>

\* variant of ResetRevision: the branch name without the remote prefix
ResetRevisionBare(branch) == branch

\* reset's revision: 'origin/%s' % branch
ResetRevision(branch) == "origin/" \o branch

\* the commits a revision string names in the local repository: a
\* remote-tracking ref names its tip, any other name (tag, hash, local
\* branch) may name any commit the repository holds
Resolve(wd, revision) ==
    IF \E b \in Branches : revision = "origin/" \o b
    THEN {wd.refs[b] : b \in {x \in Branches : revision = "origin/" \o x}}
             \ {NoCommit}
    ELSE LocalCommits(wd)

\* git reset --hard <revision>: exit code and the head it leaves
HardReset(wd, revision) ==
    {[code |-> 0, head |-> c] : c \in Resolve(wd, revision)}
    \cup {[code |-> code, head |-> wd.head] : code \in ExitCodes \ {0}}

\* reset logs a warning on this condition
ResetWarns(code) == code # 0

\* Backend.reset, as the last statement of update
Reset ==
    /\ pc = "reset"
    /\ LET branch == Or(default_branch, fallback_branch)
           revision == ResetRevision(branch)
       IN  \E r \in HardReset(working_dir, revision) :
            /\ trace' = Append(trace, Event("reset", revision, r.code))
            /\ working_dir' = [working_dir EXCEPT !.head = r.head]
            /\ warnings' = IF ResetWarns(r.code) THEN Append(warnings, r.code)
                           ELSE warnings
            /\ update_ret' = Triple(r.code, revision)
            /\ IF op = "update"
               THEN /\ ret' = Triple(r.code, revision)
                    /\ outcome' = "returned"
                    /\ pc' = "idle"
               ELSE /\ pc' = "checkout_reset"
                    /\ UNCHANGED <<ret, outcome>>
    /\ UNCHANGED <<listing, listed, op, repo_url, default_branch, identifier, prev>>

\* variant of CheckoutTarget: the configured default branch is ignored
CheckoutTargetFallbackOnly(id, db) == IF ~Truthy(id) THEN fallback_branch ELSE id

\* checkout's target: identifier, or when it is not given
\* self.default_branch or self.fallback_branch
CheckoutTarget(id, db) ==
    IF ~Truthy(id) THEN Or(db, fallback_branch) ELSE id

\* variant of CheckoutRevision: prefixed the way reset prefixes its branch
CheckoutRevisionPrefixed(target) == "origin/" \o target

\* the revision checkout hands to git reset --hard: the target as it is
CheckoutRevision(target) == target

\* variant of CheckoutResult: the result of update is returned
CheckoutResultOfUpdate(updateTriple, resetTriple) == updateTriple

\* the triple checkout returns, given update's and that of its own reset
CheckoutResult(updateTriple, resetTriple) == resetTriple

\* Backend.checkout after self.update(): git reset --hard <identifier> --
CheckoutReset ==
    /\ pc = "checkout_reset"
    /\ LET revision == CheckoutRevision(CheckoutTarget(identifier, default_branch))
       IN  \E r \in HardReset(working_dir, revision) :
            /\ trace' = Append(trace, Event("reset", revision, r.code))
            /\ working_dir' = [working_dir EXCEPT !.head = r.head]
            /\ ret' = CheckoutResult(update_ret, Triple(r.code, revision))
            /\ outcome' = "returned"
            /\ pc' = "idle"
    /\ UNCHANGED <<listing, listed, op, repo_url, default_branch, identifier,
                   update_ret, warnings, prev>>

\* ------------------------------------------------- tags and branches
\* The stdout of git show-ref --tags and of git branch -r is a sequence of
\* characters.  The listings below are made of whole lines, each ended by a
\* newline; they carry no double quote and no carriage return, the two
\* characters csv.reader would treat specially besides its delimiter.

\* lines of a tag listing: two well-formed ones, one with spaces around and
\* the tag name of the first, a blank one, one of spaces only, one of a
\* single token, one of three tokens
TagLineA ==
    <<"c", "0", " ", "r", "e", "f", "s", "/", "t", "a", "g", "s", "/", "2",
      ".", "0">>
TagLineB ==
    <<"b", "d", " ", " ", "r", "e", "f", "s", "/", "t", "a", "g", "s", "/",
      "v", "/", "1">>
TagLineC ==
    <<" ", "e", "1", " ", "r", "e", "f", "s", "/", "t", "a", "g", "s", "/",
      "2", ".", "0", " ">>
TagLineBlank == <<>>
TagLineSpaces == <<" ", " ">>
TagLineOne == <<"c", "0">>
TagLineThree ==
    <<"c", "0", " ", "r", "e", "f", "s", "/", "t", "a", "g", "s", "/", "2",
      ".", "0", " ", "x">>
TagLines == {TagLineA, TagLineB, TagLineC, TagLineBlank,
             TagLineSpaces, TagLineOne, TagLineThree}

\* lines of a branch listing: a branch, the current branch with a slash in
\* its name, a branch whose name is the slug of that one, the HEAD alias,
\* the current-branch marker alone and between spaces, a blank line, a
\* name without the remote prefix
BranchLineA == <<" ", " ", "o", "r", "i", "g", "i", "n", "/", "a">>
BranchLineB == <<"*", " ", "o", "r", "i", "g", "i", "n", "/", "r", "/", "2">>
BranchLineC == <<" ", " ", "o", "r", "i", "g", "i", "n", "/", "r", "-", "2">>
BranchLineAlias ==
    <<" ", " ", "o", "r", "i", "g", "i", "n", "/", "H", "E", "A", "D", " ",
      "-", ">", " ", "o", "r", "i", "g", "i", "n", "/", "a">>
BranchLineMarker == <<"*">>
BranchLineMarkerSpaces == <<" ", "*", " ">>
BranchLineBlank == <<>>
BranchLinePlain == <<" ", " ", "x", "/", "y">>
BranchLines == {BranchLineA, BranchLineB, BranchLineC, BranchLineAlias,
                BranchLineMarker, BranchLineMarkerSpaces, BranchLineBlank, BranchLinePlain}

SeqsUpTo(S, n) == UNION {[1..k -> S] : k \in 0..n}

\* what git may answer: any exit code with any listing of up to MaxLines lines
Listings ==
    {[kind |-> "tags", retcode |-> c, lines |-> ls] :
        c \in ExitCodes, ls \in SeqsUpTo(TagLines, MaxLines)}
    \cup
    {[kind |-> "branches", retcode |-> c, lines |-> ls] :
        c \in ExitCodes, ls \in SeqsUpTo(BranchLines, MaxLines)}

\* the stdout made of these lines
RECURSIVE Stdout(_)
Stdout(lines) ==
    IF lines = <<>> THEN <<>>
    ELSE Head(lines) \o <<"\n">> \o Stdout(Tail(lines))

\* str.split(sep): the pieces of s between the occurrences of sep
RECURSIVE Split(_, _)
Split(s, sep) ==
    IF \A i \in DOMAIN s : s[i] # sep THEN <<s>>
    ELSE LET i == CHOOSE k \in DOMAIN s :
                     s[k] = sep /\ \A j \in 1..(k - 1) : s[j] # sep
         IN  <<SubSeq(s, 1, i - 1)>> \o Split(SubSeq(s, i + 1, Len(s)), sep)

\* iterating StringIO(data): the lines of data; a trailing newline ends the
\* last line and starts no further one
ReadLines(data) ==
    LET pieces == Split(data, "\n")
    IN  IF pieces[Len(pieces)] = <<>>
        THEN SubSeq(pieces, 1, Len(pieces) - 1) ELSE pieces

\* one row of csv.reader(..., delimiter=' '): the fields between the spaces,
\* no field at all for an empty line
CsvRow(line) == IF line = <<>> THEN <<>> ELSE Split(line, " ")

\* csv.reader(StringIO(data), delimiter=' ')
CsvReader(data) ==
    LET lines == ReadLines(data) IN [i \in DOMAIN lines |-> CsvRow(lines[i])]

\* VCSVersion(self, identifier, verbose_name)
VCSVersion(id, verbose_name) ==
    [identifier |-> id, verbose_name |-> verbose_name]

Returned(versions) == [state |-> "returned", versions |-> versions]
\* an exception leaves the property: nothing is returned
Raised == [state |-> "raised", versions |-> <<>>]

\* variant of Emit: a version whose name is already listed is not added
EmitUnique(versions, v) ==
    IF \E i \in DOMAIN versions : versions[i].verbose_name = v.verbose_name
    THEN versions ELSE Append(versions, v)

\* vcs_tags.append(...), clean_branches.append(...)
Emit(versions, v) == Append(versions, v)

\* the filter of parse_tags: f != ''
IsField(f) == f # <<>>

\* variant of TagRowUnpacks: further tokens of a row are ignored
TagRowUnpacksLoose(row) == Len(row) >= 2

\* commit_hash, name = row: succeeds on exactly two fields
TagRowUnpacks(row) == Len(row) = 2

\* variant of CleanName: the whole ref path
CleanNameWhole(name) == name

\* name.split('/')[-1]
CleanName(name) == LET parts == Split(name, "/") IN parts[Len(parts)]

\* the loop of parse_tags over the rows left, vcs_tags being the list so far
RECURSIVE ParseTagRows(_, _)
ParseTagRows(rows, vcs_tags) ==
    IF rows = <<>> THEN Returned(vcs_tags)
    ELSE LET row == SelectSeq(Head(rows), IsField)
         IN  IF row = <<>> THEN ParseTagRows(Tail(rows), vcs_tags)
             ELSE IF ~TagRowUnpacks(row) THEN Raised
             ELSE ParseTagRows(Tail(rows),
                      Emit(vcs_tags, VCSVersion(row[1], CleanName(row[2]))))

\* Backend.parse_tags
parse_tags(data) == ParseTagRows(CsvReader(data), <<>>)

\* variant of ListingFails: the exit code is not looked at
ListingNeverFails(retcode) == FALSE

\* the tags and branches properties return [] on this condition
ListingFails(retcode) == retcode # 0

\* Backend.tags, on the answer of git show-ref --tags
TagsProperty(retcode, stdout) ==
    IF ListingFails(retcode) THEN Returned(<<>>) ELSE parse_tags(stdout)

\* variant of IsBranchField: the current-branch marker is kept
IsBranchFieldWithMarker(f) == f # <<>>

\* the filter of parse_branches: f != '' and f != '*'
IsBranchField(f) == f # <<>> /\ f # <<"*">>

OriginPrefix == <<"o", "r", "i", "g", "i", "n", "/">>
HeadName == <<"H", "E", "A", "D">>

\* str.startswith
StartsWith(s, prefix) ==
    Len(s) >= Len(prefix) /\ SubSeq(s, 1, Len(prefix)) = prefix

\* str.replace for single characters
Replace(s, old, new) == [i \in DOMAIN s |-> IF s[i] = old THEN new ELSE s[i]]

\* variant of BranchSlug: the slashes are kept
BranchSlugWithSlashes(branch) ==
    SubSeq(branch, Len(OriginPrefix) + 1, Len(branch))

\* branch[cut_len:].replace('/', '-')
BranchSlug(branch) ==
    Replace(SubSeq(branch, Len(OriginPrefix) + 1, Len(branch)), "/", "-")

\* branch.replace('/', '-')
PlainSlug(branch) == Replace(branch, "/", "-")

\* the loop of parse_branches over the rows left
RECURSIVE ParseBranchRows(_, _)
ParseBranchRows(rows, clean_branches) ==
    IF rows = <<>> THEN Returned(clean_branches)
    ELSE LET fields == SelectSeq(Head(rows), IsBranchField)
             branch == fields[1]
         IN  IF Len(fields) = 0 THEN ParseBranchRows(Tail(rows), clean_branches)
             ELSE IF StartsWith(branch, OriginPrefix)
             THEN IF BranchSlug(branch) \in {HeadName}
                  THEN ParseBranchRows(Tail(rows), clean_branches)
                  ELSE ParseBranchRows(Tail(rows),
                           Emit(clean_branches,
                                VCSVersion(branch, BranchSlug(branch))))
             ELSE ParseBranchRows(Tail(rows),
                      Emit(clean_branches,
                           VCSVersion(branch, PlainSlug(branch))))

\* Backend.parse_branches
parse_branches(data) == ParseBranchRows(CsvReader(data), <<>>)

\* Backend.branches, on the answer of git branch -r
BranchesProperty(retcode, stdout) ==
    IF ListingFails(retcode) THEN Returned(<<>>) ELSE parse_branches(stdout)

backend_vars == <<working_dir, pc, op, repo_url, default_branch, identifier,
                  trace, outcome, ret, update_ret, warnings, prev>>

\* the tags property is read
TagsRead ==
    /\ listing.kind = "tags"
    /\ listed.state = "pending"
    /\ listed' = TagsProperty(listing.retcode, Stdout(listing.lines))
    /\ UNCHANGED <<listing, backend_vars>>

\* the branches property is read
BranchesRead ==
    /\ listing.kind = "branches"
    /\ listed.state = "pending"
    /\ listed' = BranchesProperty(listing.retcode, Stdout(listing.lines))
    /\ UNCHANGED <<listing, backend_vars>>

\* git has answered one of the two listing commands, with anything
ListingInit ==
    /\ BackendIdle
    /\ listing \in Listings
    /\ listed = NotListed

ListingNext ==
    \/ TagsRead
    \/ BranchesRead

ListingSpec == ListingInit /\ [][ListingNext]_vars

Next ==
    \/ Update
    \/ Checkout
    \/ CheckWorkingDir
    \/ RepoExists
    \/ Pull
    \/ Clone
    \/ SubmoduleSync
    \/ SubmoduleUpdate
    \/ Reset
    \/ CheckoutReset

Spec == Init /\ [][Next]_vars

\* ------------------------------------------------------------ properties
\* positions of the trace at which one of the commands cmds was issued
At(cmds) == {i \in DOMAIN trace : trace[i].cmd \in cmds}
Issued(cmd) == At({cmd}) # {}
Last == trace[Len(trace)]

\* the branch update aligns with: the configured default branch, or the
\* fallback when none is configured
UpdateBranch ==
    IF default_branch = None \/ default_branch = "" THEN "master"
    ELSE default_branch

\* an update has returned normally: a call to update, or the update inside
\* a checkout, which is then about to issue its own reset
UpdateReturned ==
    \/ pc = "idle" /\ op = "update" /\ outcome = "returned" /\ ret # NoTriple
    \/ pc = "checkout_reset"

\* C1: when a call finds the working directory bound to another URL than the
\* one requested, the consistency check removes the whole directory before
\* the status probe, the fetch or the clone of that call; the probe, the
\* fetch and the clone are never issued against a directory that exists and
\* whose stored origin URL differs from the requested one.
C1_RemovedBeforeSync ==
    /\ [][(pc = "check_working_dir" /\ working_dir.exists
           /\ working_dir.origin_url # repo_url)
          => (/\ working_dir' = AbsentDir
              /\ pc' = "repo_exists"
              /\ trace'[Len(trace')].cmd = "rmtree")]_vars
    /\ [](/\ pc \in {"repo_exists", "pull", "clone"}
             => ~(working_dir.exists /\ working_dir.origin_url # repo_url)
          /\ \A i \in At({"rmtree"}) :
                \A j \in At({"status", "fetch", "clone"}) : i < j)

\* a call that removed a directory bound to another URL goes on to clone
C1_Witness ==
    /\ pc = "clone"
    /\ Issued("rmtree")
    /\ trace[2].cmd = "config" /\ trace[2].code = 0

\* C2: a fetch or clone that exits non-zero is the last command of its
\* call, and the call ends by raising the import failure, in update and in
\* checkout alike: nothing is returned.
C2_FailedSyncAborts ==
    \A i \in At({"fetch", "clone"}) :
        trace[i].code # 0 =>
            /\ i = Len(trace)
            /\ pc = "idle"
            /\ outcome = "raised"
            /\ ret = NoTriple

\* a checkout whose fetch failed
C2_Witness ==
    /\ op = "checkout"
    /\ pc = "idle"
    /\ trace # <<>>
    /\ Last.cmd = "fetch" /\ Last.code # 0
    /\ outcome = "raised"

\* C3 as stated: every hard reset that exits non-zero leaves the call
\* returning normally with that exit code in the returned triple.
C3_EveryFailedResetReturned ==
    \A i \in At({"reset"}) :
        trace[i].code # 0 =>
            /\ outcome # "raised"
            /\ pc = "idle" => (outcome = "returned" /\ ret[1] = trace[i].code)

\* C3 (amended): a hard reset that exits non-zero never makes the call
\* raise; the call returns the triple of the last reset it issued (update
\* its reset to origin/<branch>, checkout its final reset), whose exit
\* code, failing or not, is the one the caller sees.
C3_LastResetReturned ==
    /\ \A i \in At({"reset"}) : trace[i].code # 0 => outcome # "raised"
    /\ (pc = "idle" /\ Issued("reset")) =>
          /\ outcome = "returned"
          /\ Last.cmd = "reset"
          /\ ret = Triple(Last.code, Last.arg)
          /\ ret[1] = Last.code

\* a checkout whose inner update reset and whose final reset both failed
C3_Witness ==
    /\ op = "checkout"
    /\ pc = "idle"
    /\ outcome = "returned"
    /\ Len(trace) > 1
    /\ Last.cmd = "reset" /\ Last.code # 0
    /\ trace[Len(trace) - 1].cmd = "reset" /\ trace[Len(trace) - 1].code # 0
    /\ ret[1] # 0

\* C4 as stated: whenever update returns normally the head is the tip of
\* origin/<branch>.
C4_HeadAlignedAfterUpdate ==
    UpdateReturned =>
        /\ working_dir.refs[UpdateBranch] # NoCommit
        /\ working_dir.head = working_dir.refs[UpdateBranch]

\* C4 (amended): whenever update returns normally and the triple it returns
\* carries exit code zero, the head is the tip of origin/<branch>, branch
\* being the configured default branch or else the fallback.
C4_HeadAlignedAfterCleanUpdate ==
    (UpdateReturned /\ update_ret[1] = 0) =>
        /\ working_dir.refs[UpdateBranch] # NoCommit
        /\ working_dir.head = working_dir.refs[UpdateBranch]

\* an update whose reset succeeded and moved the head
C4_Witness ==
    /\ pc = "idle" /\ op = "update" /\ outcome = "returned"
    /\ ret # NoTriple
    /\ ret[1] = 0
    /\ prev.valid
    /\ prev.head # working_dir.head
    /\ working_dir.head = working_dir.refs[UpdateBranch]

\* the second of two updates in succession, same URL and branch, has ended
\* and found the remote as the first had
SecondUpdateEnded ==
    /\ pc = "idle"
    /\ op = "update"
    /\ prev.valid
    /\ working_dir.refs = prev.refs

RECURSIVE Commands(_)
Commands(t) ==
    IF t = <<>> THEN <<>>
    ELSE IF Head(t).cmd \in {"config", "rmtree"} THEN Commands(Tail(t))
    ELSE <<Head(t)>> \o Commands(Tail(t))

\* the commands of a whole update, in order, at positions 1..6
UpdateOrder(cs) ==
    /\ Len(cs) >= 1 => cs[1].cmd = "check_working_dir"
    /\ Len(cs) >= 2 => cs[2].cmd = "status"
    /\ Len(cs) >= 3 => cs[3].cmd \in {"fetch", "clone"}
    /\ Len(cs) >= 4 => cs[4].cmd = "submodule_sync"
    /\ Len(cs) >= 5 => cs[5].cmd = "submodule_update"
    /\ Len(cs) >= 6 => (cs[6].cmd = "reset" /\ cs[6].arg = "origin/" \o UpdateBranch)

\* C6: the commands of an update are issued in the order consistency check,
\* status probe, one of fetch and clone, submodule sync, submodule update,
\* hard reset to origin/<branch>; the lookup and the removal of the check
\* come before the probe; a checkout issues exactly one more command after
\* that whole sequence, a hard reset whose revision is the target as given,
\* without an origin/ prefix, and returns after it.
C6_CommandOrder ==
    LET cs == Commands(trace)
    IN  /\ UpdateOrder(cs)
        /\ \A i \in At({"config", "rmtree"}) :
              /\ i \in {2, 3}
              /\ \A j \in At({"status", "fetch", "clone", "reset"}) : i < j
        /\ Len(cs) <= (IF op = "checkout" THEN 7 ELSE 6)
        /\ Len(cs) = 7 =>
              /\ cs[7].cmd = "reset"
              /\ cs[7].arg \in {identifier, default_branch, "master"}
              /\ pc = "idle" /\ outcome = "returned"
        /\ (pc = "idle" /\ outcome = "returned" /\ ret # NoTriple) =>
              Len(cs) = (IF op = "checkout" THEN 7 ELSE 6)
        /\ pc = "checkout_reset" => Len(cs) = 6

\* a checkout of a given identifier that removed the directory, cloned and
\* issued its final reset
C6_Witness ==
    /\ op = "checkout"
    /\ pc = "idle"
    /\ outcome = "returned"
    /\ Issued("rmtree")
    /\ Issued("clone")
    /\ Last.cmd = "reset" /\ Last.arg = "2.0.2"

\* the final reset of a checkout has been issued
FinalResetIssued ==
    op = "checkout" /\ pc = "idle" /\ outcome = "returned" /\ ret # NoTriple

\* C7: the final reset of checkout targets 'master' when no identifier is
\* given and no default branch is configured, the default branch when no
\* identifier is given and one is configured, and the identifier when one
\* is given (None and the empty string count as not given, not configured).
C7_CheckoutTarget ==
    FinalResetIssued =>
        /\ Last.cmd = "reset"
        /\ (identifier \in {None, ""} /\ default_branch \in {None, ""})
              => Last.arg = "master"
        /\ (identifier \in {None, ""} /\ default_branch \notin {None, ""})
              => Last.arg = default_branch
        /\ identifier \notin {None, ""} => Last.arg = identifier

\* checkout(None) with no default branch has reset to master, and this was
\* not the reset of the inner update
C7_Witness ==
    /\ FinalResetIssued
    /\ identifier = None
    /\ default_branch = None
    /\ Last.arg = "master"
    /\ trace[Len(trace) - 1].arg = "origin/master"

\* C8: a call issues at most one of fetch and clone, right after the status
\* probe: fetch exactly when the probe exited zero, clone exactly when it
\* did not; once the call is past that point it has issued exactly one.
C8_FetchXorClone ==
    /\ Cardinality(At({"fetch", "clone"})) <= 1
    /\ Cardinality(At({"status"})) <= 1
    /\ \A i \in At({"fetch", "clone"}) :
          /\ i > 1
          /\ trace[i - 1].cmd = "status"
          /\ trace[i].cmd = "fetch" <=> trace[i - 1].code = 0
          /\ trace[i].cmd = "clone" <=> trace[i - 1].code # 0
    /\ pc = "pull" => (Last.cmd = "status" /\ Last.code = 0)
    /\ pc = "clone" => (Last.cmd = "status" /\ Last.code # 0)
    /\ (Issued("status") /\ pc \notin {"pull", "clone"}) =>
          Cardinality(At({"fetch", "clone"})) = 1

\* an update that found a valid repository and fetched
C8_Witness ==
    /\ op = "update"
    /\ pc = "submodule_sync"
    /\ Last.cmd = "fetch"
    /\ trace[Len(trace) - 1].cmd = "status" /\ trace[Len(trace) - 1].code = 0

\* C9: the working directory ceases to exist only in the consistency check,
\* and only when its stored origin URL differs from the requested one; a
\* fetch, submodule command or reset that fails leaves the directory as it
\* was, a clone that fails leaves at least what was there; no command that
\* failed is issued again in the same call.
C9_OnlyCheckRemoves ==
    /\ [][/\ (working_dir.exists /\ ~working_dir'.exists) =>
                 /\ pc = "check_working_dir"
                 /\ working_dir.origin_url # repo_url
                 /\ trace'[Len(trace')].cmd = "rmtree"
          /\ (pc \in {"pull", "submodule_sync", "submodule_update", "reset",
                      "checkout_reset"}
              /\ trace'[Len(trace')].code # 0) => working_dir' = working_dir
          /\ (pc = "clone" /\ trace'[Len(trace')].code # 0 /\ working_dir.exists)
                 => working_dir' = working_dir]_vars
    /\ [](\A i, j \in DOMAIN trace :
             (i < j /\ trace[i].code # 0) =>
                 ~(trace[j].cmd = trace[i].cmd /\ trace[j].arg = trace[i].arg))

\* a call whose fetch failed has ended, the directory is still there with
\* the refs and head it had
C9_Witness ==
    /\ pc = "idle"
    /\ outcome = "raised"
    /\ Last.cmd = "fetch"
    /\ working_dir.exists
    /\ working_dir.head # NoCommit

\* C10: whatever the exit codes of submodule sync and submodule update, the
\* call does not raise: the sync is followed by the update, the update by
\* the hard reset to origin/<branch>, and update returns the triple of that
\* reset.
C10_SubmoduleBestEffort ==
    /\ \A i \in At({"submodule_sync"}) :
          /\ outcome # "raised"
          /\ pc \in {"submodule_update", "reset", "checkout_reset", "idle"}
          /\ pc = "submodule_update" <=> i = Len(trace)
          /\ i < Len(trace) => trace[i + 1].cmd = "submodule_update"
    /\ \A i \in At({"submodule_update"}) :
          /\ trace[i - 1].cmd = "submodule_sync"
          /\ pc = "reset" <=> i = Len(trace)
          /\ i < Len(trace) =>
                /\ trace[i + 1].cmd = "reset"
                /\ trace[i + 1].arg = "origin/" \o UpdateBranch
                /\ update_ret = Triple(trace[i + 1].code, trace[i + 1].arg)
                /\ (op = "update") =>
                      (pc = "idle" /\ outcome = "returned" /\ ret = update_ret)

\* an update returned after both submodule commands had failed
C10_Witness ==
    /\ op = "update"
    /\ pc = "idle"
    /\ outcome = "returned"
    /\ \E i \in At({"submodule_sync"}) :
          /\ trace[i].code # 0
          /\ trace[i + 1].cmd = "submodule_update" /\ trace[i + 1].code # 0
          /\ trace[i + 2].cmd = "reset"

C12_FailedResetWarnedAndReturned ==
    (pc = "idle" /\ outcome = "returned" /\ ret # NoTriple) =>
        /\ Len(warnings) = Cardinality({i \in At({"reset"}) : trace[i].code # 0})
        /\ \A i \in At({"reset"}) : trace[i].code # 0 => ret[1] # 0

\* C19: whenever a call has returned without raising, the working directory
\* exists and the origin URL stored in it is the URL that call requested;
\* a fetch is only ever issued in a directory that exists and whose stored
\* origin URL is the requested one.
C19_ReturnedMeansBound ==
    /\ (pc = "idle" /\ outcome = "returned" /\ ret # NoTriple) =>
          /\ working_dir.exists
          /\ working_dir.origin_url = repo_url
    /\ pc = "pull" =>
          /\ working_dir.exists
          /\ working_dir.origin_url = repo_url
    /\ Issued("fetch") =>
          /\ working_dir.exists
          /\ working_dir.origin_url = repo_url

\* a call for one URL has returned after it removed the directory of the
\* other URL and cloned
C19_Witness ==
    /\ pc = "idle"
    /\ outcome = "returned"
    /\ ret # NoTriple
    /\ Issued("rmtree")
    /\ trace[2].cmd = "config" /\ trace[2].code = 0
    /\ Issued("clone")
    /\ working_dir.origin_url = repo_url

\* C20: a call whose consistency check removed the working directory makes
\* its status probe after the removal, the probe exits non-zero, and the
\* call issues clone and never fetch.
C20_RemovalMeansClone ==
    \A i \in At({"rmtree"}) :
        /\ ~Issued("fetch")
        /\ pc # "pull"
        /\ \A j \in At({"status"}) : i < j /\ trace[j].code # 0
        /\ \A j \in At({"clone"}) : i < j
        /\ pc \notin {"repo_exists", "clone"} => Issued("clone")
        /\ pc = "repo_exists" => ~working_dir.exists

\* a call that removed the directory has issued its clone
C20_Witness ==
    /\ Issued("rmtree")
    /\ trace # <<>>
    /\ Last.cmd = "clone"
    /\ trace[Len(trace) - 1].cmd = "status"
    /\ trace[Len(trace) - 1].code # 0

\* ----------------------------------------- properties of the listings
\* The tokens of a line, read off the line itself: a token is a maximal run
\* of characters other than the space.
TokenStarts(line) ==
    {i \in DOMAIN line : line[i] # " " /\ (i = 1 \/ line[i - 1] = " ")}

TokenFrom(line, i) ==
    SubSeq(line, i,
           CHOOSE j \in i..Len(line) :
               /\ \A k \in i..j : line[k] # " "
               /\ (j = Len(line) \/ line[j + 1] = " "))

\* the n-th token of a line
NthToken(line, n) ==
    TokenFrom(line,
              CHOOSE i \in TokenStarts(line) :
                  Cardinality({j \in TokenStarts(line) : j < i}) = n - 1)

IsNonBlank(line) == TokenStarts(line) # {}

\* the part of a path after its last slash
LastSegment(path) ==
    LET slashes == {i \in DOMAIN path : path[i] = "/"}
        last == IF slashes = {} THEN 0
                ELSE CHOOSE i \in slashes : \A j \in slashes : j <= i
    IN  SubSeq(path, last + 1, Len(path))

\* the first token of a branch line that is not the current-branch marker
BranchTokenStarts(line) ==
    {i \in TokenStarts(line) : TokenFrom(line, i) # <<"*">>}

BranchToken(line) ==
    TokenFrom(line, CHOOSE i \in BranchTokenStarts(line) :
                        \A j \in BranchTokenStarts(line) : i <= j)

HasBranchToken(line) == BranchTokenStarts(line) # {}

IsRemoteBranch(token) ==
    /\ Len(token) >= 7
    /\ token[1] = "o" /\ token[2] = "r" /\ token[3] = "i" /\ token[4] = "g"
    /\ token[5] = "i" /\ token[6] = "n" /\ token[7] = "/"

\* a remote branch name without its origin/ and with - for /
SlugOf(token) ==
    [i \in 1..(Len(token) - 7) |->
        IF token[i + 7] = "/" THEN "-" ELSE token[i + 7]]

IsRemoteLine(line) == HasBranchToken(line) /\ IsRemoteBranch(BranchToken(line))

IsAliasLine(line) ==
    IsRemoteLine(line) /\ SlugOf(BranchToken(line)) = <<"H", "E", "A", "D">>

TagListingRead == listing.kind = "tags" /\ listing.retcode = 0 /\ listed.state # "pending"
BranchListingRead ==
    listing.kind = "branches" /\ listing.retcode = 0 /\ listed.state # "pending"

C14_FailedOrEmptyListing ==
    (listed.state # "pending" /\ (listing.retcode # 0 \/ listing.lines = <<>>))
        => (listed.state = "returned" /\ listed.versions = <<>>)

\* a tag listing that exited non-zero with a line parse_tags cannot unpack
C14_Witness ==
    /\ listing.kind = "tags"
    /\ listing.retcode # 0
    /\ listing.lines = <<TagLineThree>>
    /\ listed = Returned(<<>>)

\* C15: parse_branches on a listing whose lines all start, the marker
\* aside, with a token beginning with origin/ returns one record per line
\* that is not the HEAD alias, in order: its identifier is that whole token,
\* its name the token without origin/ and with every / turned into -; the
\* alias line and the tokens after the first of a line give no record.
C15_RemoteBranches ==
    LET real == SelectSeq(listing.lines, LAMBDA l : ~IsAliasLine(l))
    IN  (BranchListingRead /\ \A i \in DOMAIN listing.lines :
                              IsRemoteLine(listing.lines[i])) =>
            /\ listed.state = "returned"
            /\ Len(listed.versions) = Len(real)
            /\ \A i \in DOMAIN real :
                  /\ listed.versions[i].identifier = BranchToken(real[i])
                  /\ listed.versions[i].verbose_name = SlugOf(BranchToken(real[i]))

\* '* origin/r/2' and the alias line have been parsed into the single
\* record (origin/r/2, r-2)
C15_Witness ==
    /\ BranchListingRead
    /\ listing.lines \in {<<BranchLineB, BranchLineAlias>>,
                          <<BranchLineAlias, BranchLineB>>}
    /\ listed = Returned(<<[identifier |-> <<"o", "r", "i", "g", "i", "n", "/",
                                             "r", "/", "2">>,
                            verbose_name |-> <<"r", "-", "2">>]>>)

\* a line of nothing but spaces and at most one current-branch marker
IsMarkerOrBlank(line) ==
    /\ \A i \in DOMAIN line : line[i] \in {" ", "*"}
    /\ Cardinality({i \in DOMAIN line : line[i] = "*"}) <= 1

\* C16: a line that is blank or holds only the current-branch marker gives
\* no record, and the listing gives the records it gives without such
\* lines.
C16_MarkerOnlyLines ==
    LET others == SelectSeq(listing.lines, LAMBDA l : ~IsMarkerOrBlank(l))
    IN  BranchListingRead =>
            /\ listed = parse_branches(Stdout(others))
            /\ others = <<>> => listed = Returned(<<>>)

\* a branch between a line with the marker alone and one with the marker
\* between spaces
C16_Witness ==
    /\ BranchListingRead
    /\ listing.lines = <<BranchLineMarker, BranchLineA, BranchLineMarkerSpaces>>
    /\ listed = Returned(<<[identifier |-> <<"o", "r", "i", "g", "i", "n", "/",
                                             "a">>,
                            verbose_name |-> <<"a">>]>>)

\* C17: the records come in the order of the lines that gave them and none
\* is left out because its name is already listed: a tag listing that is
\* returned has one record per line that is not blank, a branch listing
\* one per line with a branch token that is not the HEAD alias, the i-th
\* record being that of the i-th such line.
C17_OrderKeptNoDedup ==
    LET named == SelectSeq(listing.lines, IsNonBlank)
        giving == SelectSeq(listing.lines,
                            LAMBDA l : HasBranchToken(l) /\ ~IsAliasLine(l))
    IN  /\ (TagListingRead /\ listed.state = "returned") =>
              /\ Len(listed.versions) = Len(named)
              /\ \A i \in DOMAIN named :
                    listed.versions[i].identifier = NthToken(named[i], 1)
        /\ BranchListingRead =>
              /\ Len(listed.versions) = Len(giving)
              /\ \A i \in DOMAIN giving :
                    listed.versions[i].identifier = BranchToken(giving[i])

\* origin/r-2 listed before origin/r/2: two records of one name, in that
\* order
C17_Witness ==
    /\ BranchListingRead
    /\ listing.lines = <<BranchLineC, BranchLineB>>
    /\ Len(listed.versions) = 2
    /\ listed.versions[1].verbose_name = listed.versions[2].verbose_name
    /\ listed.versions[1].identifier = <<"o", "r", "i", "g", "i", "n", "/",
                                         "r", "-", "2">>
    /\ listed.versions[2].identifier = <<"o", "r", "i", "g", "i", "n", "/",
                                         "r", "/", "2">>

====
